---- MODULE Spec2Model ----
(***************************************************************************)
(* Model of base_socket<family, socktype, protocol>:                       *)
(*   - construction (network mode: get_iface_info_; domain mode: path),    *)
(*   - the interface resolver get_iface_info_,                             *)
(*   - the lifecycle drain guard (stop_threads / stop_tp, ~base_socket).   *)
(*                                                                         *)
(* Texts are sequences of one-character strings; binary addresses are      *)
(* tuples of bytes in memory (network) order.  A 32- or 128-bit integer    *)
(* is kept as its tuple of bytes, least significant first, so that no      *)
(* arithmetic leaves the range of the model checker's integers.            *)
(***************************************************************************)
EXTENDS Integers, Sequences, FiniteSets, TLC

\* ------------------------------------------------------------------------
\* Address families (values of <sys/socket.h> on Linux)
\* ------------------------------------------------------------------------
AF_UNIX == 1
AF_INET == 2
AF_INET6 == 10

is_network(fam) == fam = AF_INET \/ fam = AF_INET6
is_domain(fam) == fam = AF_UNIX
is_ipv6(fam) == is_network(fam) /\ ~is_domain(fam) /\ fam = AF_INET6

\* sizeof(in_addr) = 4, sizeof(in6_addr) = 16: the width of num_addr_t
AddrBytes(fam) == IF is_ipv6(fam) THEN 16 ELSE 4

\* ------------------------------------------------------------------------
\* Generic helpers on sequences
\* ------------------------------------------------------------------------
\* a function with domain 1..n as an explicit tuple
Tuple(f) == SubSeq(f, 1, Len(f))

Reverse(s) == Tuple([i \in 1..Len(s) |-> s[Len(s) + 1 - i]])

Zeros(n) == Tuple([i \in 1..n |-> 0])

\* ------------------------------------------------------------------------
\* Characters
\* ------------------------------------------------------------------------
HexChars == <<"0", "1", "2", "3", "4", "5", "6", "7", "8", "9", "a", "b", "c", "d", "e", "f">>

IsDigit(c) == \E d \in 0..9 : HexChars[d + 1] = c
IsXDigit(c) == \E d \in 0..15 : HexChars[d + 1] = c
DigitVal(c) == CHOOSE d \in 0..15 : HexChars[d + 1] = c

\* printf("%u") of a small unsigned number
RECURSIVE DecText(_)
DecText(v) == IF v < 10 THEN <<HexChars[v + 1]>> ELSE DecText(v \div 10) \o <<HexChars[(v % 10) + 1]>>

\* printf("%x") of a 16-bit word
RECURSIVE HexText(_)
HexText(v) == IF v < 16 THEN <<HexChars[v + 1]>> ELSE HexText(v \div 16) \o <<HexChars[(v % 16) + 1]>>

\* ------------------------------------------------------------------------
\* inet_ntop(AF_INET, ...): "%u.%u.%u.%u" of the first four bytes
\* ------------------------------------------------------------------------
Ntop4(b) == DecText(b[1]) \o <<".">> \o DecText(b[2]) \o <<".">> \o DecText(b[3]) \o <<".">> \o DecText(b[4])

\* ------------------------------------------------------------------------
\* inet_pton(AF_INET, ...): dotted decimal, exactly four octets, each at
\* most 255 and without a leading zero.  Result: [ok, bytes].
\*   oct  octets completed so far,  cur  value of the octet being read
\*   saw  a digit of the current octet has been read
\* ------------------------------------------------------------------------
RECURSIVE Pton4Scan(_, _, _, _)
Pton4Scan(txt, oct, cur, saw) ==
  IF txt = <<>>
  THEN IF saw /\ Len(oct) = 3 THEN [ok |-> TRUE, bytes |-> Append(oct, cur)]
       ELSE [ok |-> FALSE, bytes |-> <<>>]
  ELSE LET ch == Head(txt) IN
       IF IsDigit(ch)
       THEN LET nw == cur * 10 + DigitVal(ch) IN
            IF (saw /\ cur = 0) \/ nw > 255
            THEN [ok |-> FALSE, bytes |-> <<>>]
            ELSE Pton4Scan(Tail(txt), oct, nw, TRUE)
       ELSE IF ch = "." /\ saw /\ Len(oct) < 3
            THEN Pton4Scan(Tail(txt), Append(oct, cur), 0, FALSE)
            ELSE [ok |-> FALSE, bytes |-> <<>>]

Pton4(txt) == Pton4Scan(txt, <<>>, 0, FALSE)

\* ------------------------------------------------------------------------
\* inet_ntop(AF_INET6, ...): eight 16-bit words in lower-case hex, the first
\* longest run of two or more zero words replaced by "::", an embedded
\* IPv4 tail for v4-mapped / v4-compatible addresses.
\* ------------------------------------------------------------------------
Words6(b) == Tuple([i \in 1..8 |-> b[2 * i - 1] * 256 + b[2 * i]])

RECURSIVE ZeroRunLen(_, _)
ZeroRunLen(w, i) == IF i > 8 \/ w[i] # 0 THEN 0 ELSE 1 + ZeroRunLen(w, i + 1)

RunStarts(w) == {i \in 1..8 : w[i] = 0 /\ (i = 1 \/ w[i - 1] # 0)}

\* base of the run inet_ntop compresses (0: none) and its length
BestBase(w) ==
  LET c == {i \in RunStarts(w) : ZeroRunLen(w, i) >= 2 /\ \A j \in RunStarts(w) : (ZeroRunLen(w, j) < ZeroRunLen(w, i) \/ (ZeroRunLen(w, j) = ZeroRunLen(w, i) /\ j >= i))}
  IN IF c = {} THEN 0 ELSE CHOOSE i \in c : TRUE

BestLen(w) == IF BestBase(w) = 0 THEN 0 ELSE ZeroRunLen(w, BestBase(w))

RECURSIVE Ntop6From(_, _, _, _, _)
Ntop6From(b, w, i, base, len) ==
  LET trail == IF base # 0 /\ base + len = 9 THEN <<":">> ELSE <<>> IN
  IF i > 8 THEN trail
  ELSE IF base # 0 /\ i >= base /\ i < base + len
       THEN (IF i = base THEN <<":">> ELSE <<>>) \o Ntop6From(b, w, i + 1, base, len)
       ELSE (IF i # 1 THEN <<":">> ELSE <<>>) \o
            (IF i = 7 /\ base = 1 /\ (len = 6 \/ (len = 7 /\ w[8] # 1) \/ (len = 5 /\ w[6] = 65535))
             THEN Ntop4(<<b[13], b[14], b[15], b[16]>>) \o trail
             ELSE HexText(w[i]) \o Ntop6From(b, w, i + 1, base, len))

Ntop6(b) == Ntop6From(b, Words6(b), 1, BestBase(Words6(b)), BestLen(Words6(b)))

\* ------------------------------------------------------------------------
\* inet_pton(AF_INET6, ...).  Result: [ok, bytes].
\*   out     bytes written so far (tp - tmp = Len(out))
\*   colonp  Len(out) where "::" was seen, -1 when not seen
\*   val, nd value and digit count of the group being read; saw: saw_xdigit
\*   tok     the text from the start of the current group (curtok)
\* ------------------------------------------------------------------------
Pton6Finish(out, colonp, val, saw) ==
  LET o1 == IF saw THEN out \o <<val \div 256, val % 256>> ELSE out IN
  IF saw /\ Len(out) + 2 > 16 THEN [ok |-> FALSE, bytes |-> <<>>]
  ELSE IF colonp # -1
       THEN IF Len(o1) = 16 THEN [ok |-> FALSE, bytes |-> <<>>]
            ELSE [ok |-> TRUE,
                  bytes |-> SubSeq(o1, 1, colonp) \o Zeros(16 - Len(o1)) \o SubSeq(o1, colonp + 1, Len(o1))]
       ELSE IF Len(o1) = 16 THEN [ok |-> TRUE, bytes |-> o1]
            ELSE [ok |-> FALSE, bytes |-> <<>>]

RECURSIVE Pton6Scan(_, _, _, _, _, _, _)
Pton6Scan(txt, out, colonp, val, nd, saw, tok) ==
  IF txt = <<>> THEN Pton6Finish(out, colonp, val, saw)
  ELSE LET ch == Head(txt)
           rest == Tail(txt) IN
       IF IsXDigit(ch)
       THEN IF nd + 1 > 4 THEN [ok |-> FALSE, bytes |-> <<>>]
            ELSE Pton6Scan(rest, out, colonp, (val * 16 + DigitVal(ch)) % 65536, nd + 1, TRUE, tok)
       ELSE IF ch = ":"
            THEN IF ~saw
                 THEN IF colonp # -1 THEN [ok |-> FALSE, bytes |-> <<>>]
                      ELSE Pton6Scan(rest, out, Len(out), val, nd, saw, rest)
                 ELSE IF rest = <<>> \/ Len(out) + 2 > 16 THEN [ok |-> FALSE, bytes |-> <<>>]
                      ELSE Pton6Scan(rest, out \o <<val \div 256, val % 256>>, colonp, 0, 0, FALSE, rest)
            ELSE IF ch = "." /\ Len(out) + 4 <= 16 /\ Pton4(tok).ok
                 THEN Pton6Finish(out \o Pton4(tok).bytes, colonp, val, FALSE)
                 ELSE [ok |-> FALSE, bytes |-> <<>>]

Pton6(txt) ==
  IF txt # <<>> /\ Head(txt) = ":"
  THEN IF Len(txt) < 2 \/ txt[2] # ":" THEN [ok |-> FALSE, bytes |-> <<>>]
       ELSE Pton6Scan(Tail(txt), <<>>, -1, 0, 0, FALSE, Tail(txt))
  ELSE Pton6Scan(txt, <<>>, -1, 0, 0, FALSE, txt)

\* ------------------------------------------------------------------------
\* The conversions of the configured family
\* ------------------------------------------------------------------------
inet_ntop(fam, b) == IF is_ipv6(fam) THEN Ntop6(b) ELSE Ntop4(b)
inet_pton(fam, txt) == IF is_ipv6(fam) THEN Pton6(txt) ELSE Pton4(txt)

\* ------------------------------------------------------------------------
\* num_addr_t: the bytes inet_pton wrote, read as one host integer.
\* The integer is its bytes, least significant first.
\* ------------------------------------------------------------------------
HostInt(bytes, le) == IF le THEN bytes ELSE Reverse(bytes)

IsZero(n) == \A i \in 1..Len(n) : n[i] = 0

\* num_addr >> 1u
ShiftRight1(n) == Tuple([i \in 1..Len(n) |-> (n[i] \div 2) + (IF i < Len(n) THEN (n[i + 1] % 2) * 128 ELSE 0)])

\* one test of the loop condition and, if it holds, one run of the body of
\*   while (num_addr > 0u) { num_addr = num_addr >> 1u; info.pflen++; }
LoopStep(s) == IF IsZero(s.num_addr) THEN s ELSE [num_addr |-> ShiftRight1(s.num_addr), pflen |-> s.pflen + 1]

\* eight iterations at a time keep the evaluation shallow
LoopStep8(s) == LoopStep(LoopStep(LoopStep(LoopStep(LoopStep(LoopStep(LoopStep(LoopStep(s))))))))

RECURSIVE Loop(_)
Loop(s) == IF IsZero(s.num_addr) THEN s ELSE Loop(LoopStep8(s))

\* ------------------------------------------------------------------------
\* Bounds of the model
\* ------------------------------------------------------------------------
\* longest OS interface list enumerated
MaxIfaces == 2
\* units of work handed to the drain guard
MaxUnits == 2
\* stop calls the owner makes, the destructor's included
MaxStops == 2

\* ------------------------------------------------------------------------
\* The OS interface list (struct ifaddrs): what getifaddrs can return
\* ------------------------------------------------------------------------
\* the netmask of a prefix of n one-bits, len bytes long
MaskOf(n, len) == Tuple([i \in 1..len |-> IF n >= 8 * i THEN 255 ELSE IF n <= 8 * (i - 1) THEN 0 ELSE 256 - 2 ^ (8 * i - n)])

Names == {"eth0", "lo"}

\* a uint32_t is its four bytes, least significant first
Uint32(n) == <<n % 256, (n \div 256) % 256, (n \div 65536) % 256, (n \div 16777216) % 256>>

\* the integer 2^k - 1 of len bytes: its k lowest bits are set
LowOnes(k, len) == Tuple([i \in 1..len |-> IF k >= 8 * i THEN 255 ELSE IF k <= 8 * (i - 1) THEN 0 ELSE 2 ^ (k - 8 * (i - 1)) - 1])

NoAddrEntry(name) ==
  [ifa_name |-> name, ifa_addr |-> FALSE, sa_family |-> 0, addr |-> <<>>, netmask |-> <<>>, sin6_scope_id |-> Uint32(0)]

InetEntry(name, fam, addr, plen, scope) ==
  [ifa_name |-> name, ifa_addr |-> TRUE, sa_family |-> fam, addr |-> addr,
   netmask |-> MaskOf(plen, AddrBytes(fam)), sin6_scope_id |-> Uint32(scope)]

\* a link-layer entry (sa_family AF_PACKET = 17)
PacketEntry(name) ==
  [ifa_name |-> name, ifa_addr |-> TRUE, sa_family |-> 17, addr |-> <<>>, netmask |-> <<>>, sin6_scope_id |-> Uint32(0)]

Host4a == <<192, 168, 1, 10>>
Host4b == <<10, 0, 0, 1>>
Host6a == <<254, 128, 0, 0, 0, 0, 0, 0, 2, 0, 0, 0, 0, 0, 0, 5>>
Host6b == <<32, 1, 13, 184, 0, 0, 0, 0, 0, 0, 0, 0, 0, 0, 0, 1>>

\* the entries interface lists are built from
EntryUniverse ==
  {NoAddrEntry("eth0"), PacketEntry("eth0"),
   InetEntry("eth0", AF_INET, Host4a, 24, 0), InetEntry("eth0", AF_INET, Host4b, 8, 0),
   InetEntry("lo", AF_INET, Host4a, 24, 0),
   InetEntry("eth0", AF_INET6, Host6a, 64, 2), InetEntry("eth0", AF_INET6, Host6b, 32, 0)}

\* one interface with every canonical netmask of its family
MaskEntries ==
  {InetEntry("eth0", AF_INET, Host4a, n, 0) : n \in 0..32}
  \cup {InetEntry("eth0", AF_INET6, Host6a, n, 2) : n \in 0..128}

OsLists ==
  UNION {[1..k -> EntryUniverse] : k \in 0..MaxIfaces} \cup {<<e>> : e \in MaskEntries}

Paths == {"", "/tmp/a.sock", "/run/b.sock"}

\* what a byte of the stack that was never written can hold: anything
StackBytes == 0..255

\* uint32_t scopeid; is never initialized: a read of it yields what its four
\* bytes of the stack hold, each of them any byte, so any uint32_t
Indeterminate32 == [1..4 -> StackBytes]

\* num_addr_t num_addr; is never initialized: if inet_pton does not write it,
\* it is what the stack holds.  The loop counts the bit length of the value
\* and leaves it zero, so one value of each bit length up to the width gives
\* every outcome
IndeterminateAddr(fam) == {LowOnes(k, AddrBytes(fam)) : k \in 0..(8 * AddrBytes(fam))}

\* a uint32_t that was declared and not written: its value is indeterminate,
\* and so is the value of every copy made of it
Unwritten == <<>>

\* ------------------------------------------------------------------------
\* State
\* ------------------------------------------------------------------------
VARIABLES
  family,           \* template parameter: AF_INET, AF_INET6 or AF_UNIX
  little_endian,    \* byte order of the host the build runs on
  arg,              \* the constructor's argument: [kind, s]
  getifaddrs_rc,    \* what ::getifaddrs returns (0: success)
  oslist,           \* the list ::getifaddrs yields
  pc,               \* position of the constructing thread
  temp_addr,        \* index into oslist; Len(oslist) + 1 is nullptr
  p_addrstr,        \* bytes p_addrstr points to
  p_netmaskstr,     \* bytes p_netmaskstr points to
  scopeid,          \* the local uint32_t scopeid
  info,             \* the local struct iface_netinfo_t
  num_addr,         \* the local num_addr_t, least significant byte first
  pton_rc,          \* the return value of ::inet_pton, which the code drops
  heap,             \* OS / library allocations not yet released
  exception,        \* what the constructor threw ("none": nothing)
  if_,              \* member if_
  iface_path_info_, \* member iface_path_info_
  form,             \* drain guard realization: "counting" or "pool"
  worker_locks,     \* workers take mtx_ around decrement and notify
  threads_cnt_,     \* member threads_cnt_
  mtx_,             \* member mtx_: "free", or held by the "stopper" or a "worker"
  cv_waiting,       \* the stopping thread is blocked in cv_.wait
  cv_signalled,     \* cv_ was notified while the stopping thread waited
  stop_pc,          \* position of the stopping thread
  stop_calls,       \* stop calls started so far
  stop_plan,        \* stop calls the owner makes, the destructor's included
  outstanding,      \* units of work outstanding when the current stop call began
  unit,             \* state of every unit of work
  tp_stop,          \* pool form: the pool was told to stop
  tp_joined         \* pool form: the pool's workers are joined

cvars == <<family, little_endian, arg, getifaddrs_rc, oslist, pc, temp_addr, p_addrstr, p_netmaskstr,
           scopeid, info, num_addr, pton_rc, heap, exception, if_, iface_path_info_>>
gvars == <<form, worker_locks, threads_cnt_, mtx_, cv_waiting, cv_signalled, stop_pc, stop_calls,
           stop_plan, outstanding, unit, tp_stop, tp_joined>>
vars == <<cvars, gvars>>

\* a member is <<>> while its object does not exist and <<v>> when it holds v
NoObject == <<>>
Member(v) == <<v>>
\* nullptr
nullptr(list) == Len(list) + 1

\* struct iface_netinfo_t info;  (scopeid has no initializer)
DeclaredInfo == [host_addr |-> <<>>, netmask |-> <<>>, broadcast |-> <<>>, pflen |-> 0, scopeid |-> Unwritten]

\* ------------------------------------------------------------------------
\* Construction
\* ------------------------------------------------------------------------
CtorArgs ==
  [kind : {"iface"}, s : Names] \cup [kind : {"path"}, s : Paths] \cup [kind : {"none"}, s : {""}]

\* the constructor overload enable_if admits for the family
Legal(fam, a) == IF is_network(fam) /\ ~is_domain(fam) THEN a.kind = "iface" ELSE a.kind \in {"path", "none"}

GuardIdle ==
  /\ form = "counting" /\ worker_locks = FALSE /\ threads_cnt_ = 0 /\ mtx_ = "free"
  /\ cv_waiting = FALSE /\ cv_signalled = FALSE /\ stop_pc = "idle" /\ stop_calls = 0
  /\ stop_plan = 1 /\ outstanding = {} /\ unit = [u \in 1..MaxUnits |-> "idle"]
  /\ tp_stop = FALSE /\ tp_joined = FALSE

Init ==
  /\ family \in {AF_INET, AF_INET6, AF_UNIX}
  /\ little_endian \in BOOLEAN
  /\ arg \in {a \in CtorArgs : Legal(family, a)}
  /\ getifaddrs_rc \in {0, -1}
  /\ oslist \in IF is_network(family) /\ getifaddrs_rc = 0 THEN OsLists ELSE {<<>>}
  /\ is_domain(family) => (little_endian /\ getifaddrs_rc = 0)
  /\ pc = "new"
  /\ temp_addr = 0 /\ p_addrstr = <<>> /\ p_netmaskstr = <<>> /\ scopeid = Unwritten
  /\ info = DeclaredInfo /\ num_addr = <<>> /\ pton_rc = 1
  /\ heap = {} /\ exception = "none"
  /\ if_ = NoObject /\ iface_path_info_ = NoObject
  /\ GuardIdle

\* base_socket(const std::string &path): if_(path), threads_cnt_(0u)
\* iface_path_info_ has no initializer: a default-constructed std::string
CtorDomainPath ==
  /\ pc = "new" /\ is_domain(family) /\ arg.kind = "path"
  /\ if_' = Member(arg.s)
  /\ iface_path_info_' = Member("")
  /\ pc' = "alive"
  /\ UNCHANGED <<family, little_endian, arg, getifaddrs_rc, oslist, temp_addr, p_addrstr, p_netmaskstr,
                 scopeid, info, num_addr, pton_rc, heap, exception, gvars>>

\* base_socket(): threads_cnt_(0u)
CtorDomainDefault ==
  /\ pc = "new" /\ is_domain(family) /\ arg.kind = "none"
  /\ if_' = Member("")
  /\ iface_path_info_' = Member("")
  /\ pc' = "alive"
  /\ UNCHANGED <<family, little_endian, arg, getifaddrs_rc, oslist, temp_addr, p_addrstr, p_netmaskstr,
                 scopeid, info, num_addr, pton_rc, heap, exception, gvars>>

\* base_socket(const std::string &iface): if_(iface), ..., iface_path_info_(get_iface_info_(iface))
CtorNetwork ==
  /\ pc = "new" /\ is_network(family) /\ arg.kind = "iface"
  /\ if_' = Member(arg.s)
  /\ pc' = "getifaddrs"
  /\ UNCHANGED <<family, little_endian, arg, getifaddrs_rc, oslist, temp_addr, p_addrstr, p_netmaskstr,
                 scopeid, info, num_addr, pton_rc, heap, exception, iface_path_info_, gvars>>

\* path(): return iface_path_info_
path == iface_path_info_[1]
\* iface(): return iface_path_info_
iface == iface_path_info_[1]

\* ------------------------------------------------------------------------
\* The interface resolver get_iface_info_
\* ------------------------------------------------------------------------
inputs == <<family, little_endian, arg, getifaddrs_rc, oslist>>

\* if (!::getifaddrs(&interfaces))
GetifaddrsOkInverted(rc) == rc # 0
GetifaddrsOk(rc) == rc = 0

\* if (temp_addr->ifa_addr) if (temp_addr->ifa_addr->sa_family == family)
\*   if (temp_addr->ifa_name == ifname)
MatchesAnyName(e, fam, ifname) == e.ifa_addr /\ e.sa_family = fam
Matches(e, fam, ifname) == e.ifa_addr /\ e.sa_family = fam /\ e.ifa_name = ifname

\* a throw out of get_iface_info_ leaves the constructor: the members built
\* so far are destroyed, nothing the resolver allocated is released
Throw(e) ==
  /\ pc' = "failed"
  /\ exception' = e
  /\ if_' = NoObject
  /\ UNCHANGED iface_path_info_

\* getifaddrs succeeded: temp_addr = interfaces; struct iface_netinfo_t info;
GetIfaddrs ==
  /\ pc = "getifaddrs" /\ GetifaddrsOk(getifaddrs_rc)
  /\ heap' = heap \cup {"interfaces"}
  /\ temp_addr' = 1
  /\ info' = DeclaredInfo
  /\ pc' = "scan"
  /\ UNCHANGED <<inputs, p_addrstr, p_netmaskstr, scopeid, num_addr, pton_rc, exception, if_,
                 iface_path_info_, gvars>>

\* getifaddrs failed: throw std::runtime_error("getifaddrs() ...")
GetIfaddrsFails ==
  /\ pc = "getifaddrs" /\ ~GetifaddrsOk(getifaddrs_rc)
  /\ Throw("enumeration")
  /\ UNCHANGED <<inputs, temp_addr, p_addrstr, p_netmaskstr, scopeid, info, num_addr, pton_rc, heap, gvars>>

\* an entry the three tests reject: temp_addr = temp_addr->ifa_next
ScanSkip ==
  /\ pc = "scan" /\ temp_addr # nullptr(oslist)
  /\ ~Matches(oslist[temp_addr], family, arg.s)
  /\ temp_addr' = temp_addr + 1
  /\ UNCHANGED <<inputs, pc, p_addrstr, p_netmaskstr, scopeid, info, num_addr, pton_rc, heap, exception,
                 if_, iface_path_info_, gvars>>

\* the entry matches: take its address, its netmask and, for IPv6, its scope;
\* for IPv4 nothing is written to the local scopeid
ScanMatch ==
  /\ pc = "scan" /\ temp_addr # nullptr(oslist)
  /\ Matches(oslist[temp_addr], family, arg.s)
  /\ p_addrstr' = oslist[temp_addr].addr
  /\ p_netmaskstr' = oslist[temp_addr].netmask
  /\ IF is_ipv6(family)
     THEN scopeid' = oslist[temp_addr].sin6_scope_id
     ELSE scopeid' = Unwritten
  /\ pc' = "conv_host"
  /\ UNCHANGED <<inputs, temp_addr, info, num_addr, pton_rc, heap, exception, if_, iface_path_info_, gvars>>

\* while (temp_addr) ended: throw "Interface with name ... not found"
ScanEnd ==
  /\ pc = "scan" /\ temp_addr = nullptr(oslist)
  /\ Throw("not_found")
  /\ UNCHANGED <<inputs, temp_addr, p_addrstr, p_netmaskstr, scopeid, info, num_addr, pton_rc, heap, gvars>>

\* ::inet_ntop(family, p_addrstr, info.host_addr.data(), addrlen) succeeds
ConvHost ==
  /\ pc = "conv_host"
  /\ info' = [info EXCEPT !.host_addr = inet_ntop(family, p_addrstr)]
  /\ pc' = "conv_mask"
  /\ UNCHANGED <<inputs, temp_addr, p_addrstr, p_netmaskstr, scopeid, num_addr, pton_rc, heap, exception,
                 if_, iface_path_info_, gvars>>

\* ... or does not return info.host_addr.data(): throw
ConvHostFails ==
  /\ pc = "conv_host"
  /\ Throw("host_conversion")
  /\ UNCHANGED <<inputs, temp_addr, p_addrstr, p_netmaskstr, scopeid, info, num_addr, pton_rc, heap, gvars>>

\* ::inet_ntop(family, p_netmaskstr, info.netmask.data(), addrlen) succeeds
ConvMask ==
  /\ pc = "conv_mask"
  /\ info' = [info EXCEPT !.netmask = inet_ntop(family, p_netmaskstr)]
  /\ pc' = "pflen"
  /\ UNCHANGED <<inputs, temp_addr, p_addrstr, p_netmaskstr, scopeid, num_addr, pton_rc, heap, exception,
                 if_, iface_path_info_, gvars>>

\* ... or does not return info.netmask.data(): throw
ConvMaskFails ==
  /\ pc = "conv_mask"
  /\ Throw("netmask_conversion")
  /\ UNCHANGED <<inputs, temp_addr, p_addrstr, p_netmaskstr, scopeid, info, num_addr, pton_rc, heap, gvars>>

\* num_addr_t num_addr; ::inet_pton(family, info.netmask.data(), &num_addr);
\* then the shift loop.  inet_pton succeeded and wrote num_addr.
PrefixLen ==
  /\ pc = "pflen"
  /\ inet_pton(family, info.netmask).ok
  /\ pton_rc' = 1
  /\ LET end == Loop([num_addr |-> HostInt(inet_pton(family, info.netmask).bytes, little_endian),
                       pflen |-> info.pflen])
     IN /\ num_addr' = end.num_addr
        /\ info' = [info EXCEPT !.pflen = end.pflen]
  /\ pc' = "cidr"
  /\ UNCHANGED <<inputs, temp_addr, p_addrstr, p_netmaskstr, scopeid, heap, exception, if_,
                 iface_path_info_, gvars>>

\* inet_pton did not accept the text and returned 0 (it returns -1 only for a
\* family it does not support, which AF_INET and AF_INET6 are not): its result
\* is not tested, num_addr was never written and the loop runs on an
\* indeterminate value
PrefixLenUnparsed ==
  /\ pc = "pflen"
  /\ pton_rc' = 0
  /\ \E n \in IndeterminateAddr(family) :
       LET end == Loop([num_addr |-> n, pflen |-> info.pflen])
       IN /\ num_addr' = end.num_addr
          /\ info' = [info EXCEPT !.pflen = end.pflen]
  /\ pc' = "cidr"
  /\ UNCHANGED <<inputs, temp_addr, p_addrstr, p_netmaskstr, scopeid, heap, exception, if_,
                 iface_path_info_, gvars>>

\* the argument of cidr_from_str: host_addr + "/" + std::to_string(pflen)
CidrString(i) == i.host_addr \o <<"/">> \o DecText(i.pflen)

\* cidr_to_str(cidr_addr_broadcast(cidr_from_str(s)), CIDR_ONLYADDR): the CIDR
\* library is an external collaborator, its result is left uninterpreted
BroadcastText(s) == <<"broadcast of">> \o s

\* cidr_from_str, cidr_addr_broadcast, cidr_to_str
CidrAlloc ==
  /\ pc = "cidr"
  /\ heap' = heap \cup {"cidr_addr", "cidr_broadcast", "broadcast_addr"}
  /\ pc' = "cidr_copy"
  /\ UNCHANGED <<inputs, temp_addr, p_addrstr, p_netmaskstr, scopeid, info, num_addr, pton_rc, exception,
                 if_, iface_path_info_, gvars>>

\* memcpy into info.broadcast; std::free(broadcast_addr); cidr_free twice
CidrCopyFree ==
  /\ pc = "cidr_copy"
  /\ info' = [info EXCEPT !.broadcast = BroadcastText(CidrString(info))]
  /\ heap' = heap \ {"broadcast_addr", "cidr_broadcast", "cidr_addr"}
  /\ pc' = "return"
  /\ UNCHANGED <<inputs, temp_addr, p_addrstr, p_netmaskstr, scopeid, num_addr, pton_rc, exception,
                 if_, iface_path_info_, gvars>>

\* the values a read of the uint32_t v can yield: v, or any value if v is
\* indeterminate
ReadUint32(v) == IF v = Unwritten THEN Indeterminate32 ELSE {v}

\* info.scopeid = scopeid; ::freeifaddrs(interfaces); return std::move(info);
\* the constructor stores the result in iface_path_info_
Return ==
  /\ pc = "return"
  /\ info' = [info EXCEPT !.scopeid = scopeid]
  /\ heap' = heap \ {"interfaces"}
  /\ iface_path_info_' = Member(info')
  /\ pc' = "alive"
  /\ UNCHANGED <<inputs, temp_addr, p_addrstr, p_netmaskstr, scopeid, num_addr, pton_rc, exception,
                 if_, gvars>>

Next ==
  \/ CtorDomainPath \/ CtorDomainDefault \/ CtorNetwork
  \/ GetIfaddrs \/ GetIfaddrsFails
  \/ ScanSkip \/ ScanMatch \/ ScanEnd
  \/ ConvHost \/ ConvHostFails \/ ConvMask \/ ConvMaskFails
  \/ PrefixLen \/ PrefixLenUnparsed
  \/ CidrAlloc \/ CidrCopyFree \/ Return

Spec == Init /\ [][Next]_vars

\* ------------------------------------------------------------------------
\* The lifecycle drain guard of a constructed descriptor.
\*
\* Counting form (base_socket.hpp): stop_threads and the members cv_, mtx_,
\* threads_cnt_.  The code that hands work off and completes it is not in
\* this file; it follows the design: the counter is incremented when work
\* is handed off, decremented on completion, and the condition variable is
\* notified.  Whether that code holds mtx_ meanwhile is not fixed: both
\* protocols are explored (worker_locks).
\*
\* Pool form: stop_tp forwards to thread_pool<num_threads>::stop, which
\* tells the workers to finish the work in flight and to refuse new work,
\* then joins them.
\* ------------------------------------------------------------------------
num_threads == 2

Units == 1..MaxUnits

\* states in which a unit of work has been handed off and is not finished
Unfinished == {"queued", "running", "locked"}
\* states in which a worker still runs on behalf of a unit
Active == Unfinished \cup {"decremented", "notified"}

GuardInit ==
  /\ family = AF_UNIX /\ little_endian = TRUE /\ arg = [kind |-> "none", s |-> ""]
  /\ getifaddrs_rc = 0 /\ oslist = <<>> /\ pc = "alive"
  /\ temp_addr = 0 /\ p_addrstr = <<>> /\ p_netmaskstr = <<>> /\ scopeid = Unwritten
  /\ info = DeclaredInfo /\ num_addr = <<>> /\ pton_rc = 1
  /\ heap = {} /\ exception = "none"
  /\ if_ = Member("") /\ iface_path_info_ = Member("")
  /\ form \in {"counting", "pool"}
  /\ worker_locks \in (IF form = "counting" THEN BOOLEAN ELSE {FALSE})
  /\ threads_cnt_ = 0
  /\ mtx_ = "free"
  /\ cv_waiting = FALSE /\ cv_signalled = FALSE
  /\ stop_pc = "idle" /\ stop_calls = 0
  /\ stop_plan \in 1..MaxStops
  /\ outstanding = {}
  /\ unit = [u \in Units |-> "idle"]
  /\ tp_stop = FALSE /\ tp_joined = FALSE

\* ---- counting form: the workers -----------------------------------------
\* work is handed off: the counter is incremented
HandOff(u) ==
  /\ form = "counting" /\ unit[u] = "idle"
  /\ threads_cnt_' = threads_cnt_ + 1
  /\ unit' = [unit EXCEPT ![u] = "running"]
  /\ UNCHANGED <<cvars, form, worker_locks, mtx_, cv_waiting, cv_signalled, stop_pc, stop_calls,
                 stop_plan, outstanding, tp_stop, tp_joined>>

\* the locking protocol: the worker takes mtx() before it reports completion
WorkerLock(u) ==
  /\ form = "counting" /\ worker_locks /\ unit[u] = "running"
  /\ mtx_ = "free"
  /\ mtx_' = "worker"
  /\ unit' = [unit EXCEPT ![u] = "locked"]
  /\ UNCHANGED <<cvars, form, worker_locks, threads_cnt_, cv_waiting, cv_signalled, stop_pc, stop_calls,
                 stop_plan, outstanding, tp_stop, tp_joined>>

\* the work is complete: the counter is decremented
Decrement(u) ==
  /\ form = "counting"
  /\ unit[u] = (IF worker_locks THEN "locked" ELSE "running")
  /\ threads_cnt_' = threads_cnt_ - 1
  /\ unit' = [unit EXCEPT ![u] = "decremented"]
  /\ UNCHANGED <<cvars, form, worker_locks, mtx_, cv_waiting, cv_signalled, stop_pc, stop_calls,
                 stop_plan, outstanding, tp_stop, tp_joined>>

\* cv().notify_all(): a thread blocked in cv_.wait is woken
Notify(u) ==
  /\ form = "counting" /\ unit[u] = "decremented"
  /\ cv_signalled' = (cv_signalled \/ cv_waiting)
  /\ unit' = [unit EXCEPT ![u] = IF worker_locks THEN "notified" ELSE "done"]
  /\ UNCHANGED <<cvars, form, worker_locks, threads_cnt_, mtx_, cv_waiting, stop_pc, stop_calls,
                 stop_plan, outstanding, tp_stop, tp_joined>>

WorkerUnlock(u) ==
  /\ form = "counting" /\ unit[u] = "notified"
  /\ mtx_' = "free"
  /\ unit' = [unit EXCEPT ![u] = "done"]
  /\ UNCHANGED <<cvars, form, worker_locks, threads_cnt_, cv_waiting, cv_signalled, stop_pc, stop_calls,
                 stop_plan, outstanding, tp_stop, tp_joined>>

\* ---- the stopping thread --------------------------------------------------
\* stop_threads() / stop_tp() is called, by the owner or by ~base_socket
CallStop ==
  /\ stop_pc \in {"idle", "returned"} /\ stop_calls < stop_plan
  /\ stop_calls' = stop_calls + 1
  /\ outstanding' = {u \in Units : unit[u] \in Unfinished}
  /\ stop_pc' = "check"
  /\ UNCHANGED <<cvars, form, worker_locks, threads_cnt_, mtx_, cv_waiting, cv_signalled, stop_plan,
                 unit, tp_stop, tp_joined>>

\* if (threads_cnt_)
NeedsWait(cnt) == cnt # 0

\* [this]() -> bool { return threads_cnt_ == 0u; }
WaitPredAlways(cnt) == TRUE
WaitPred(cnt) == cnt = 0

\* stop_threads: the test of the counter before any lock is taken
StopCheck ==
  /\ form = "counting" /\ stop_pc = "check"
  /\ stop_pc' = IF NeedsWait(threads_cnt_) THEN "lock" ELSE "returned"
  /\ UNCHANGED <<cvars, form, worker_locks, threads_cnt_, mtx_, cv_waiting, cv_signalled, stop_calls,
                 stop_plan, outstanding, unit, tp_stop, tp_joined>>

\* std::unique_lock<std::mutex> lock(mtx_), and the lock cv_.wait takes again
StopLock ==
  /\ form = "counting" /\ stop_pc \in {"lock", "relock"}
  /\ mtx_ = "free"
  /\ mtx_' = "stopper"
  /\ stop_pc' = "pred"
  /\ UNCHANGED <<cvars, form, worker_locks, threads_cnt_, cv_waiting, cv_signalled, stop_calls,
                 stop_plan, outstanding, unit, tp_stop, tp_joined>>

\* cv_.wait(lock, pred) is while (!pred()) wait(lock): the predicate is
\* read first, with mtx_ held; the thread is not a waiter yet
StopPred ==
  /\ form = "counting" /\ stop_pc = "pred"
  /\ stop_pc' = IF WaitPred(threads_cnt_) THEN "unlock" ELSE "wait"
  /\ UNCHANGED <<cvars, form, worker_locks, threads_cnt_, mtx_, cv_waiting, cv_signalled, stop_calls,
                 stop_plan, outstanding, unit, tp_stop, tp_joined>>

\* wait(lock): in one step mtx_ is released and the thread becomes a waiter;
\* a notification made before this step is not seen
StopWait ==
  /\ form = "counting" /\ stop_pc = "wait"
  /\ mtx_' = "free"
  /\ cv_waiting' = TRUE
  /\ cv_signalled' = FALSE
  /\ stop_pc' = "waiting"
  /\ UNCHANGED <<cvars, form, worker_locks, threads_cnt_, stop_calls, stop_plan, outstanding, unit,
                 tp_stop, tp_joined>>

\* the wait ends on a notification
StopWake ==
  /\ form = "counting" /\ stop_pc = "waiting" /\ cv_signalled
  /\ cv_waiting' = FALSE
  /\ cv_signalled' = FALSE
  /\ stop_pc' = "relock"
  /\ UNCHANGED <<cvars, form, worker_locks, threads_cnt_, mtx_, stop_calls, stop_plan, outstanding,
                 unit, tp_stop, tp_joined>>

\* ... or spuriously, as std::condition_variable::wait may
StopSpuriousWake ==
  /\ form = "counting" /\ stop_pc = "waiting" /\ ~cv_signalled
  /\ cv_waiting' = FALSE
  /\ stop_pc' = "relock"
  /\ UNCHANGED <<cvars, form, worker_locks, threads_cnt_, mtx_, cv_signalled, stop_calls, stop_plan,
                 outstanding, unit, tp_stop, tp_joined>>

\* the unique_lock leaves scope; stop_threads returns
StopUnlock ==
  /\ form = "counting" /\ stop_pc = "unlock"
  /\ mtx_' = "free"
  /\ stop_pc' = "returned"
  /\ UNCHANGED <<cvars, form, worker_locks, threads_cnt_, cv_waiting, cv_signalled, stop_calls,
                 stop_plan, outstanding, unit, tp_stop, tp_joined>>

\* ---- pool form ------------------------------------------------------------
\* work is submitted to tp(): a stopped pool refuses it
Submit(u) ==
  /\ form = "pool" /\ unit[u] = "idle"
  /\ unit' = [unit EXCEPT ![u] = IF tp_stop THEN "refused" ELSE "queued"]
  /\ UNCHANGED <<cvars, form, worker_locks, threads_cnt_, mtx_, cv_waiting, cv_signalled, stop_pc,
                 stop_calls, stop_plan, outstanding, tp_stop, tp_joined>>

\* one of the num_threads workers takes a queued unit
Take(u) ==
  /\ form = "pool" /\ unit[u] = "queued"
  /\ Cardinality({v \in Units : unit[v] = "running"}) < num_threads
  /\ unit' = [unit EXCEPT ![u] = "running"]
  /\ UNCHANGED <<cvars, form, worker_locks, threads_cnt_, mtx_, cv_waiting, cv_signalled, stop_pc,
                 stop_calls, stop_plan, outstanding, tp_stop, tp_joined>>

Finish(u) ==
  /\ form = "pool" /\ unit[u] = "running"
  /\ unit' = [unit EXCEPT ![u] = "done"]
  /\ UNCHANGED <<cvars, form, worker_locks, threads_cnt_, mtx_, cv_waiting, cv_signalled, stop_pc,
                 stop_calls, stop_plan, outstanding, tp_stop, tp_joined>>

\* stop_tp() { return tp_.stop(); }: the pool is told to stop: its workers
\* finish in-flight work and new work is refused; the join follows
PoolStop ==
  /\ form = "pool" /\ stop_pc = "check"
  /\ tp_stop' = TRUE
  /\ stop_pc' = "join"
  /\ UNCHANGED <<cvars, form, worker_locks, threads_cnt_, mtx_, cv_waiting, cv_signalled, stop_calls,
                 stop_plan, outstanding, unit, tp_joined>>

\* the workers have finished all accepted work and are joined
PoolJoin ==
  /\ form = "pool" /\ stop_pc = "join"
  /\ \A u \in Units : unit[u] \notin Unfinished
  /\ tp_joined' = TRUE
  /\ stop_pc' = "returned"
  /\ UNCHANGED <<cvars, form, worker_locks, threads_cnt_, mtx_, cv_waiting, cv_signalled, stop_calls,
                 stop_plan, outstanding, unit, tp_stop>>

GuardNext ==
  \/ \E u \in Units : HandOff(u)
  \/ \E u \in Units : WorkerLock(u)
  \/ \E u \in Units : Decrement(u)
  \/ \E u \in Units : Notify(u)
  \/ \E u \in Units : WorkerUnlock(u)
  \/ CallStop
  \/ StopCheck \/ StopLock \/ StopPred \/ StopWait \/ StopWake \/ StopSpuriousWake \/ StopUnlock
  \/ \E u \in Units : Submit(u)
  \/ \E u \in Units : Take(u)
  \/ \E u \in Units : Finish(u)
  \/ PoolStop \/ PoolJoin

GuardSpec == GuardInit /\ [][GuardNext]_vars

\* ------------------------------------------------------------------------
\* Properties
\* ------------------------------------------------------------------------
\* entries with an assigned address, the configured family and the requested name
Candidates == {i \in 1..Len(oslist) : oslist[i].ifa_addr /\ oslist[i].sa_family = family /\ oslist[i].ifa_name = arg.s}
FirstCandidate == IF Candidates = {} THEN 0 ELSE CHOOSE i \in Candidates : \A j \in Candidates : i <= j

\* the number of leading one-bits of a canonical netmask
LeadingOnes(mask) == CHOOSE n \in 0..(8 * Len(mask)) : MaskOf(n, Len(mask)) = mask

Resolved == is_network(family) /\ pc = "alive"

\* C1: for every canonical netmask of the configured family, the prefix
\* length the resolver derives (inet_pton succeeded, its output read as a
\* host integer and shifted right until zero) is the number of leading
\* one-bits of the netmask.  Stated for a little-endian host, where the
\* netmasks 255.255.255.0, 255.255.0.0 and 255.255.255.255 give 24, 16, 32.
C1_PflenIsLeadingOnes ==
  (Resolved /\ pton_rc = 1 /\ little_endian) => iface.pflen = LeadingOnes(oslist[temp_addr].netmask)

\* C2: in domain mode a descriptor constructed with a path returns that
\* path from path().
C2_PathReturnsStoredPath ==
  (is_domain(family) /\ pc = "alive" /\ arg.kind = "path") => path = arg.s

\* C3: when get_iface_info_ ends, by a return or by a throw, the interface
\* list and every CIDR handle it acquired have been released.
C3_ResourcesReleased ==
  (is_network(family) /\ pc \in {"alive", "failed"}) => heap = {}

\* C4: counting form: stop_threads does not return while a unit of work
\* that was outstanding when it was called is still unfinished.
C4_StopWaitsForOutstanding ==
  (form = "counting" /\ stop_pc = "returned") => \A u \in outstanding : unit[u] \notin Unfinished

C4_Witness ==
  /\ form = "counting" /\ stop_pc = "returned" /\ stop_calls = stop_plan
  /\ outstanding # {} /\ \A u \in outstanding : unit[u] = "done"

\* C5: once a stop call has returned, no owned unit of work is outstanding,
\* runs or starts running.
StopHasReturned == stop_calls >= 1 /\ (stop_pc = "returned" \/ stop_calls >= 2)

C5_QuiescedAfterStop ==
  StopHasReturned => \A u \in Units : unit[u] \notin Active

\* C6: a stop call made after an earlier stop call has returned does not
\* block forever and leaves the drain guard as the earlier call left it.
\* As a state predicate: such a call is never left waiting on cv_ while the
\* counter is zero, no unit of work is in flight and no notification is
\* pending (nothing then remains that ends the wait: a spurious wakeup is
\* permitted to std::condition_variable, never promised); and once it has
\* returned, the stopping thread holds no lock and is no waiter.
NoWorkInFlight == \A u \in Units : unit[u] \notin Active

C7_AllOrNothing ==
  is_network(family) =>
    /\ (getifaddrs_rc # 0 /\ pc \notin {"new", "getifaddrs"})
         => (pc = "failed" /\ exception = "enumeration")
    /\ (getifaddrs_rc = 0 /\ Candidates = {})
         => (pc \in {"new", "getifaddrs", "scan", "failed"} /\ (pc = "failed" => exception = "not_found"))
    /\ pc = "failed" => (iface_path_info_ = NoObject /\ if_ = NoObject)
    /\ pc # "alive" => iface_path_info_ = NoObject

C7_Witness ==
  /\ is_network(family) /\ pc = "failed" /\ exception = "not_found"
  /\ \E i \in 1..Len(oslist) : oslist[i].ifa_name = arg.s

\* C8: the resolver stops at the first entry of the list that has an
\* assigned address, the configured family and the requested name, and the
\* info it returns is derived from that entry only.
C8_FirstMatchWins ==
  /\ (is_network(family) /\ pc \in {"conv_host", "conv_mask", "pflen", "cidr", "cidr_copy", "return", "alive"})
       => /\ FirstCandidate # 0
          /\ temp_addr = FirstCandidate
          /\ p_addrstr = oslist[FirstCandidate].addr
          /\ p_netmaskstr = oslist[FirstCandidate].netmask
  /\ Resolved
       => /\ iface.host_addr = inet_ntop(family, oslist[FirstCandidate].addr)
          /\ iface.netmask = inet_ntop(family, oslist[FirstCandidate].netmask)
          /\ is_ipv6(family) => iface.scopeid = oslist[FirstCandidate].sin6_scope_id

C8_Witness ==
  /\ Resolved
  /\ \E j \in Candidates : j > FirstCandidate /\ oslist[j].addr # oslist[FirstCandidate].addr

\* C9: if inet_ntop of the host address or of the netmask, or inet_pton of
\* the netmask, does not succeed, the resolver fails and returns no info.
C9_ConversionFailureIsHard ==
  /\ exception \in {"host_conversion", "netmask_conversion"} => (pc = "failed" /\ iface_path_info_ = NoObject)
  /\ pton_rc # 1 => pc \notin {"cidr", "cidr_copy", "return", "alive"}

\* C10: for an IPv4 descriptor the scope id of a returned info is zero:
\* zero is the only value a read of the field can yield.
C10_Ipv4ScopeIsZero ==
  (Resolved /\ family = AF_INET) => \A v \in ReadUint32(iface.scopeid) : v = Uint32(0)

====
